---- MODULE Spec2Model ----
(***************************************************************************)
(* Standard naming system of the FBX viewer: name parsers, scene scan,     *)
(* feature control binder, attachment propagator, naming session           *)
(* lifecycle (src/src/standardNaming.js) and the host's model switching    *)
(* (models.js, src/unnamed/part_003).                                      *)
(*                                                                         *)
(* A JavaScript string is a sequence of one-character strings.             *)
(***************************************************************************)
EXTENDS Integers, Sequences, FiniteSets, TLC

VARIABLES
  name,               \* parser input (child.name)
  featureInfo,        \* result of parseFeatureName(name)
  attachmentInfo,     \* result of parseAttachmentName(name)
  model,              \* scan input: a node tree
  found,              \* result of findStandardObjects(model)
  currentModel,       \* models.js: let currentModel
  scene,              \* children of the THREE.Scene that are loaded models
  objs,               \* every object produced by fbxLoader.loadAsync so far
  calls,              \* switchModel calls that are suspended at an await
  featuresFolder,     \* standardNaming.js: let featuresFolder
  attachmentsFolder,  \* standardNaming.js: let attachmentsFolder
  featureControllers, \* standardNaming.js: const featureControllers
  folders,            \* every folder gui.addFolder has created so far
  nSwitch,            \* number of switchModel, begin and end calls issued
  nChange,            \* number of control change events dispatched
  last                \* the operation that made the last step

vars == <<name, featureInfo, attachmentInfo, model, found, currentModel,
          scene, objs, calls, featuresFolder, attachmentsFolder,
          featureControllers, folders, nSwitch, nChange, last>>

parseVars == <<name, featureInfo, attachmentInfo>>
scanVars == <<model, found>>
hostVars == <<currentModel, scene, objs, calls, featuresFolder,
              attachmentsFolder, featureControllers, folders, nSwitch,
              nChange, last>>

\* JavaScript null where the other values are records
Null == [null |-> TRUE]
\* JavaScript null or undefined where the other values are references to
\* objects (ids of nodes, objects, folders: positive integers)
None == 0
\* a local that has not been assigned yet
Unset == [unset |-> TRUE]

----------------------------------------------------------------------------
(* Strings *)

LowerChars == <<"a","b","c","d","e","f","g","h","i","j","k","l","m",
                "n","o","p","q","r","s","t","u","v","w","x","y","z">>
UpperChars == <<"A","B","C","D","E","F","G","H","I","J","K","L","M",
                "N","O","P","Q","R","S","T","U","V","W","X","Y","Z">>

\* String.prototype.toUpperCase on one character
CharToUpperCase(c) ==
  IF \E i \in 1..26 : LowerChars[i] = c
    THEN UpperChars[CHOOSE i \in 1..26 : LowerChars[i] = c]
    ELSE c

\* String.prototype.toLowerCase on one character
CharToLowerCase(c) ==
  IF \E i \in 1..26 : UpperChars[i] = c
    THEN LowerChars[CHOOSE i \in 1..26 : UpperChars[i] = c]
    ELSE c

toUpperCase(s) == [i \in 1..Len(s) |-> CharToUpperCase(s[i])]
toLowerCase(s) == [i \in 1..Len(s) |-> CharToLowerCase(s[i])]

\* s.startsWith(p)
startsWith(s, p) == Len(s) >= Len(p) /\ SubSeq(s, 1, Len(p)) = p

\* s.substring(n)
substring(s, n) == SubSeq(s, n + 1, Len(s))

\* s.split('_'): the segments between the delimiters, empty ones included
RECURSIVE split(_)
split(s) ==
  IF \E i \in 1..Len(s) : s[i] = "_"
    THEN LET i == CHOOSE k \in 1..Len(s) :
                    s[k] = "_" /\ \A j \in 1..(k - 1) : s[j] # "_"
         IN <<SubSeq(s, 1, i - 1)>> \o split(SubSeq(s, i + 1, Len(s)))
    ELSE <<s>>

\* parts.join('_')
RECURSIVE join(_)
join(parts) ==
  IF Len(parts) = 0 THEN <<>>
  ELSE IF Len(parts) = 1 THEN parts[1]
  ELSE parts[1] \o <<"_">> \o join(Tail(parts))

\* parts.slice(n)
slice(parts, n) == SubSeq(parts, n + 1, Len(parts))

\* array.filter(p) for the predicate of parseFeatureName
RECURSIVE filterAxes(_)
filterAxes(cs) ==
  IF Len(cs) = 0 THEN <<>>
  ELSE (IF CharToUpperCase(Head(cs)) \in {"X", "Y", "Z"}
          THEN <<Head(cs)>> ELSE <<>>) \o filterAxes(Tail(cs))

FeaturePrefix == <<"F","e","a","t","u","r","e","_">>
AttachedPrefix == <<"A","t","t","a","c","h","e","d","_">>
PivotPrefix == <<"P","i","v","o","t","_">>

----------------------------------------------------------------------------
(* Name Parser *)

\* parseFeatureName accepting two segments
parseFeatureName_twoSegments(n) ==
  IF ~startsWith(n, FeaturePrefix) THEN Null
  ELSE LET parts == split(substring(n, 8)) IN
       IF Len(parts) < 2 THEN Null
       ELSE [axes |-> filterAxes(parts[1]),
             operation |-> parts[2],
             objectName |-> join(slice(parts, 2)),
             fullName |-> n]

\* parseFeatureName taking segment 2 alone as the object name
parseFeatureName_noJoin(n) ==
  IF ~startsWith(n, FeaturePrefix) THEN Null
  ELSE LET parts == split(substring(n, 8)) IN
       IF Len(parts) < 3 THEN Null
       ELSE [axes |-> filterAxes(parts[1]),
             operation |-> parts[2],
             objectName |-> parts[3],
             fullName |-> n]

parseFeatureName(n) ==
  IF ~startsWith(n, FeaturePrefix) THEN Null
  ELSE LET parts == split(substring(n, 8)) IN
       IF Len(parts) < 3 THEN Null
       ELSE [axes |-> filterAxes(parts[1]),
             operation |-> parts[2],
             objectName |-> join(slice(parts, 2)),
             fullName |-> n]

\* parseAttachmentName cutting both prefixes at the same length
parseAttachmentName_sameLength(n) ==
  IF startsWith(n, AttachedPrefix)
    THEN [type |-> "Attached", targetName |-> substring(n, 9), fullName |-> n]
  ELSE IF startsWith(n, PivotPrefix)
    THEN [type |-> "Pivot", targetName |-> substring(n, 9), fullName |-> n]
  ELSE Null

parseAttachmentName(n) ==
  IF startsWith(n, AttachedPrefix)
    THEN [type |-> "Attached", targetName |-> substring(n, 9), fullName |-> n]
  ELSE IF startsWith(n, PivotPrefix)
    THEN [type |-> "Pivot", targetName |-> substring(n, 6), fullName |-> n]
  ELSE Null

----------------------------------------------------------------------------
(* Scene graph host (three.js Object3D), as far as the naming system uses it.

   A model is a function from node ids to nodes; node 1 is the root.  A node
   has a name, a parent (0 for none), its children in insertion order and
   the local transform fields position, rotation and scale.

   Numbers: a position component is an integer; a scale component is counted
   in thousandths (One is 1.0); a rotation component, an Euler angle in
   radians, is counted in quarter turns (1 is pi/2 rad), so that every
   rotation matrix is an integer matrix.  An angle in degrees is an integer. *)

One == 1000

Node(nm, par, ch, pos, rot, sc) ==
  [name |-> nm, parent |-> par, children |-> ch,
   position |-> pos, rotation |-> rot, scale |-> sc]

\* index of the component x, y, z of a vector
AxisIndex(axisLower) ==
  CASE axisLower = "x" -> 1
    [] axisLower = "y" -> 2
    [] axisLower = "z" -> 3
    [] OTHER -> 0

\* Object3D.traverse: the node, then the traversal of each child in order
RECURSIVE traverse(_, _)
RECURSIVE traverseAll(_, _)
traverse(m, id) == <<id>> \o traverseAll(m, m[id].children)
traverseAll(m, ids) ==
  IF Len(ids) = 0 THEN <<>>
  ELSE traverse(m, Head(ids)) \o traverseAll(m, Tail(ids))

\* MathUtils.degToRad and MathUtils.radToDeg on the angles that are whole
\* quarter turns (degrees * pi / 180, in units of pi / 2)
degToRad(degrees) == degrees \div 90
radToDeg(radians) == radians * 90

RotX(v, k) ==
  CASE k % 4 = 0 -> v
    [] k % 4 = 1 -> <<v[1], -v[3], v[2]>>
    [] k % 4 = 2 -> <<v[1], -v[2], -v[3]>>
    [] k % 4 = 3 -> <<v[1], v[3], -v[2]>>
RotY(v, k) ==
  CASE k % 4 = 0 -> v
    [] k % 4 = 1 -> <<v[3], v[2], -v[1]>>
    [] k % 4 = 2 -> <<-v[1], v[2], -v[3]>>
    [] k % 4 = 3 -> <<-v[3], v[2], v[1]>>
RotZ(v, k) ==
  CASE k % 4 = 0 -> v
    [] k % 4 = 1 -> <<-v[2], v[1], v[3]>>
    [] k % 4 = 2 -> <<-v[1], -v[2], v[3]>>
    [] k % 4 = 3 -> <<v[2], -v[1], v[3]>>

\* the local matrix T * R * S of a node applied to a point (Euler order XYZ)
localToParent(n, p) ==
  LET s == <<(p[1] * n.scale[1]) \div One, (p[2] * n.scale[2]) \div One,
             (p[3] * n.scale[3]) \div One>>
      r == RotX(RotY(RotZ(s, n.rotation[3]), n.rotation[2]), n.rotation[1])
  IN <<n.position[1] + r[1], n.position[2] + r[2], n.position[3] + r[3]>>

\* one component of the inverse scaling (no model of the catalogue gives a
\* zero scale to a node that has descendants)
Unscale(c, sc) == (c * One) \div sc

\* the inverse of the local matrix of a node applied to a point
parentToLocal(n, p) ==
  LET t == <<p[1] - n.position[1], p[2] - n.position[2],
             p[3] - n.position[3]>>
      r == RotZ(RotY(RotX(t, 4 - (n.rotation[1] % 4)),
                     4 - (n.rotation[2] % 4)), 4 - (n.rotation[3] % 4))
  IN <<Unscale(r[1], n.scale[1]), Unscale(r[2], n.scale[2]),
       Unscale(r[3], n.scale[3])>>

\* Object3D.localToWorld: matrixWorld of the node applied to a point
RECURSIVE localToWorld(_, _, _)
localToWorld(m, id, p) ==
  IF m[id].parent = 0 THEN localToParent(m[id], p)
  ELSE localToWorld(m, m[id].parent, localToParent(m[id], p))

\* Object3D.getWorldPosition
getWorldPosition(m, id) == localToWorld(m, id, <<0, 0, 0>>)

\* Object3D.worldToLocal: the inverse of matrixWorld applied to a point
RECURSIVE worldToLocal(_, _, _)
worldToLocal(m, id, p) ==
  IF m[id].parent = 0 THEN parentToLocal(m[id], p)
  ELSE parentToLocal(m[id], worldToLocal(m, m[id].parent, p))

----------------------------------------------------------------------------
(* Scene Scan *)

\* Map.prototype.set
\* a map that keeps the first value set for a key
MapSet_keepFirst(map, k, v) ==
  [x \in (DOMAIN map) \cup {k} |-> IF x \in DOMAIN map THEN map[x] ELSE v]
MapSet(map, k, v) == [x \in (DOMAIN map) \cup {k} |-> IF x = k THEN v ELSE map[x]]
\* Map.prototype.get, undefined rendered as None
MapGet(map, k) == IF k \in DOMAIN map THEN map[k] ELSE None

EmptyFound ==
  [features |-> <<>>, attachments |-> <<>>, pivots |-> <<>>,
   objectMap |-> <<>>]

\* the callback recording every attachment descriptor as an attachment
VisitChild_noKind(acc, m, child) ==
  IF m[child].name = <<>> THEN acc
  ELSE
    LET withMap == [acc EXCEPT !.objectMap = MapSet(@, m[child].name, child)]
        fInfo == parseFeatureName(m[child].name)
        aInfo == parseAttachmentName(m[child].name)
    IN IF fInfo # Null
         THEN [withMap EXCEPT !.features = Append(@,
                 [axes |-> fInfo.axes, operation |-> fInfo.operation,
                  objectName |-> fInfo.objectName, fullName |-> fInfo.fullName,
                  object |-> child])]
       ELSE IF aInfo # Null
         THEN LET entry == [type |-> aInfo.type,
                            targetName |-> aInfo.targetName,
                            fullName |-> aInfo.fullName, object |-> child]
              IN [withMap EXCEPT !.attachments = Append(@, entry)]
       ELSE withMap

\* the callback of model.traverse in findStandardObjects
\* a callback that registers a node in the index only when its name is
\* neither a feature, an attachment nor a pivot
VisitChild_indexUnclassified(acc, m, child) ==
  IF m[child].name = <<>> THEN acc
  ELSE
    LET fInfo == parseFeatureName(m[child].name)
        aInfo == parseAttachmentName(m[child].name)
    IN IF fInfo # Null
         THEN [acc EXCEPT !.features = Append(@,
                 [axes |-> fInfo.axes, operation |-> fInfo.operation,
                  objectName |-> fInfo.objectName, fullName |-> fInfo.fullName,
                  object |-> child])]
       ELSE IF aInfo # Null
         THEN LET entry == [type |-> aInfo.type,
                            targetName |-> aInfo.targetName,
                            fullName |-> aInfo.fullName, object |-> child]
              IN IF aInfo.type = "Attached"
                   THEN [acc EXCEPT !.attachments = Append(@, entry)]
                   ELSE [acc EXCEPT !.pivots = Append(@, entry)]
       ELSE [acc EXCEPT !.objectMap = MapSet(@, m[child].name, child)]

VisitChild(acc, m, child) ==
  IF m[child].name = <<>> THEN acc
  ELSE
    LET withMap == [acc EXCEPT !.objectMap = MapSet(@, m[child].name, child)]
        fInfo == parseFeatureName(m[child].name)
        aInfo == parseAttachmentName(m[child].name)
    IN IF fInfo # Null
         THEN [withMap EXCEPT !.features = Append(@,
                 [axes |-> fInfo.axes, operation |-> fInfo.operation,
                  objectName |-> fInfo.objectName, fullName |-> fInfo.fullName,
                  object |-> child])]
       ELSE IF aInfo # Null
         THEN LET entry == [type |-> aInfo.type,
                            targetName |-> aInfo.targetName,
                            fullName |-> aInfo.fullName, object |-> child]
              IN IF aInfo.type = "Attached"
                   THEN [withMap EXCEPT !.attachments = Append(@, entry)]
                 ELSE IF aInfo.type = "Pivot"
                   THEN [withMap EXCEPT !.pivots = Append(@, entry)]
                 ELSE withMap
       ELSE withMap

RECURSIVE VisitAll(_, _, _)
VisitAll(acc, m, order) ==
  IF Len(order) = 0 THEN acc
  ELSE VisitAll(VisitChild(acc, m, Head(order)), m, Tail(order))

findStandardObjects(m) == VisitAll(EmptyFound, m, traverse(m, 1))

----------------------------------------------------------------------------
(* Feature transforms and the Attachment Propagator.  An operator that
   changes nodes takes the model and gives the changed model. *)

Str_scale == <<"s","c","a","l","e">>
Str_rotation == <<"r","o","t","a","t","i","o","n">>
Str_rotate == <<"r","o","t","a","t","e">>

\* the forEach of applyFeatureScale and applyFeatureRotation: the vector
\* with the component of every listed axis set to the value
RECURSIVE SetAxes(_, _, _)
SetAxes(vec, axes, value) ==
  IF Len(axes) = 0 THEN vec
  ELSE LET k == AxisIndex(CharToLowerCase(Head(axes)))
       IN SetAxes(IF k = 0 THEN vec ELSE [vec EXCEPT ![k] = value],
                  Tail(axes), value)

\* applyFeatureScale setting the three axes at once
applyFeatureScale_uniform(m, object, axes, value) ==
  IF object = None THEN m
  ELSE [m EXCEPT ![object].scale = <<value, value, value>>]

applyFeatureScale(m, object, axes, value) ==
  IF object = None THEN m
  ELSE [m EXCEPT ![object].scale = SetAxes(@, axes, value)]

applyFeatureRotation(m, object, axes, value) ==
  IF object = None THEN m
  ELSE [m EXCEPT ![object].rotation = SetAxes(@, axes, degToRad(value))]

\* the callback looking up the attachment's own name before the pivot
ProcessAttachment_ownFirst(m, objectMap, att) ==
  LET byOwn == MapGet(objectMap, AttachedPrefix \o att.targetName)
      target == IF byOwn # None THEN byOwn
                ELSE MapGet(objectMap, PivotPrefix \o att.targetName)
  IN IF target = None THEN m
     ELSE LET worldPos == getWorldPosition(m, target)
              localPos == IF m[att.object].parent # 0
                            THEN worldToLocal(m, m[att.object].parent, worldPos)
                            ELSE worldPos
          IN [m EXCEPT ![att.object].position = localPos]

\* the callback of attachments.forEach in processAttachments
ProcessAttachment(m, objectMap, att) ==
  LET byPivot == MapGet(objectMap, PivotPrefix \o att.targetName)
      target == IF byPivot # None THEN byPivot
                ELSE MapGet(objectMap, AttachedPrefix \o att.targetName)
  IN IF target = None THEN m
     ELSE LET worldPos == getWorldPosition(m, target)
              localPos == IF m[att.object].parent # 0
                            THEN worldToLocal(m, m[att.object].parent, worldPos)
                            ELSE worldPos
          IN [m EXCEPT ![att.object].position = localPos]

RECURSIVE processAttachments(_, _, _)
processAttachments(m, attachments, objectMap) ==
  IF Len(attachments) = 0 THEN m
  ELSE processAttachments(ProcessAttachment(m, objectMap, Head(attachments)),
                          Tail(attachments), objectMap)

----------------------------------------------------------------------------
(* GUI panel host (lil-gui) and the naming session.

   folders holds every folder created so far; a folder is in the panel, and
   its controllers can fire, while it is live.  A folder records the model
   object it was generated from and, for the Features folder, the attachment
   list and the index its change handlers have captured. *)

Max(a, b) == IF a >= b THEN a ELSE b

\* Math.max(0.01, control.value * 0.1) and control.value * 10
minScale_unclamped(value) == value \div 10
minScale(value) == Max(One \div 100, value \div 10)
maxScale(value) == value * 10

\* the controller created for one axis of one feature, none for an
\* operation the binder does not implement
ControllersForAxis(m, feature, axis) ==
  LET axisLower == CharToLowerCase(axis)
      opLower == toLowerCase(feature.operation)
      controlName == feature.objectName \o <<" ">> \o <<axis>> \o <<" ">>
                       \o feature.operation
      sc == m[feature.object].scale[AxisIndex(axisLower)]
      rot == m[feature.object].rotation[AxisIndex(axisLower)]
      scaleValue == IF sc = 0 THEN One ELSE sc
  IN IF opLower = Str_scale
       THEN <<[object |-> feature.object, axis |-> axis, kind |-> "scale",
               name |-> controlName, value |-> scaleValue,
               min |-> minScale(scaleValue), max |-> maxScale(scaleValue)]>>
     ELSE IF opLower = Str_rotation \/ opLower = Str_rotate
       THEN <<[object |-> feature.object, axis |-> axis, kind |-> "rotation",
               name |-> controlName, value |-> radToDeg(rot),
               min |-> -180, max |-> 180]>>
     ELSE <<>>

\* axes.forEach of one feature
RECURSIVE ControllersForAxes(_, _, _)
ControllersForAxes(m, feature, axes) ==
  IF Len(axes) = 0 THEN <<>>
  ELSE ControllersForAxis(m, feature, Head(axes))
         \o ControllersForAxes(m, feature, Tail(axes))

\* features.forEach
RECURSIVE ControllersFor(_, _)
ControllersFor(m, features) ==
  IF Len(features) = 0 THEN <<>>
  ELSE ControllersForAxes(m, Head(features), Head(features).axes)
         \o ControllersFor(m, Tail(features))

\* folder.destroy()
Destroy(fs, f) == [fs EXCEPT ![f].live = FALSE]

\* the module state of standardNaming.js with the panel and the objects;
\* propagated counts the calls of processAttachments an operation makes,
\* threw tells whether the operation ended with an uncaught exception
SessionState ==
  [featuresFolder |-> featuresFolder, attachmentsFolder |-> attachmentsFolder,
   featureControllers |-> featureControllers, folders |-> folders,
   objs |-> objs, propagated |-> 0, threw |-> FALSE]

\* clearStandardNamingGUI without featureControllers.length = 0
clearStandardNamingGUI_keepControllers(st) ==
  LET s1 == IF st.featuresFolder # None
              THEN [st EXCEPT !.folders = Destroy(@, st.featuresFolder),
                              !.featuresFolder = None]
              ELSE st
  IN IF s1.attachmentsFolder # None
       THEN [s1 EXCEPT !.folders = Destroy(@, s1.attachmentsFolder),
                       !.attachmentsFolder = None]
       ELSE s1

clearStandardNamingGUI(st) ==
  LET s1 == IF st.featuresFolder # None
              THEN [st EXCEPT !.folders = Destroy(@, st.featuresFolder),
                              !.featuresFolder = None]
              ELSE st
      s2 == IF s1.attachmentsFolder # None
              THEN [s1 EXCEPT !.folders = Destroy(@, s1.attachmentsFolder),
                              !.attachmentsFolder = None]
              ELSE s1
  IN [s2 EXCEPT !.featureControllers = <<>>]

\* setupStandardNamingGUI after its teardown: scan, bind, propagate
SetupFrom(s0, obj) ==
  LET m == s0.objs[obj]
      scan == findStandardObjects(m)
      ctrls == ControllersFor(m, scan.features)
      fid == Len(s0.folders) + 1
      s1 == IF Len(scan.features) > 0
              THEN [s0 EXCEPT
                      !.folders = Append(@,
                        [title |-> "Features", live |-> TRUE, closed |-> FALSE,
                         object |-> obj, controllers |-> ctrls,
                         attachments |-> scan.attachments,
                         objectMap |-> scan.objectMap,
                         info |-> Null]),
                      !.featuresFolder = fid,
                      !.featureControllers =
                        [i \in 1..Len(ctrls) |-> [folder |-> fid, index |-> i]]]
              ELSE s0
      aid == Len(s1.folders) + 1
      s2 == IF Len(scan.attachments) > 0 \/ Len(scan.pivots) > 0
              THEN [s1 EXCEPT
                      !.folders = Append(@,
                        [title |-> "Attachments Info", live |-> TRUE,
                         closed |-> TRUE, object |-> obj, controllers |-> <<>>,
                         attachments |-> <<>>, objectMap |-> <<>>,
                         info |-> [attachments |-> Len(scan.attachments),
                                   pivots |-> Len(scan.pivots)]]),
                      !.attachmentsFolder = aid]
              ELSE s1
  IN IF Len(scan.features) = 0 /\ Len(scan.attachments) = 0 THEN s0
     ELSE [s2 EXCEPT !.objs[obj] =
                       processAttachments(m, scan.attachments, scan.objectMap),
                     !.propagated = @ + 1]

\* setupStandardNamingGUI dropping its references without destroying the
\* folders
setupStandardNamingGUI_noDestroy(st, obj) ==
  SetupFrom([st EXCEPT !.featuresFolder = None, !.attachmentsFolder = None,
                       !.featureControllers = <<>>], obj)

setupStandardNamingGUI(st, obj) ==
  LET sa == IF st.featuresFolder # None
              THEN [st EXCEPT !.folders = Destroy(@, st.featuresFolder),
                              !.featuresFolder = None]
              ELSE st
      sb == IF sa.attachmentsFolder # None
              THEN [sa EXCEPT !.folders = Destroy(@, sa.attachmentsFolder),
                              !.attachmentsFolder = None]
              ELSE sa
      s0 == [sb EXCEPT !.featureControllers = <<>>]
  IN SetupFrom(s0, obj)

----------------------------------------------------------------------------
(* Values of the variables a specification does not use *)

ParseIdle == name = <<>> /\ featureInfo = Unset /\ attachmentInfo = Unset
ScanIdle == model = <<>> /\ found = Unset
HostIdle ==
  /\ currentModel = None
  /\ scene = {}
  /\ objs = <<>>
  /\ calls = {}
  /\ featuresFolder = None
  /\ attachmentsFolder = None
  /\ featureControllers = <<>>
  /\ folders = <<>>
  /\ nSwitch = 0
  /\ nChange = 0
  /\ last = [op |-> "init"]

----------------------------------------------------------------------------
(* The parsers applied to bounded names *)

\* largest number of pieces after the head of a generated name
MaxPieces == 5

Str_Feature == <<"F","e","a","t","u","r","e">>
Str_feature_ == <<"f","e","a","t","u","r","e","_">>
Str_Attached == <<"A","t","t","a","c","h","e","d">>
Str_pivot_ == <<"p","i","v","o","t","_">>

Heads == {<<>>, FeaturePrefix, Str_Feature, Str_feature_, AttachedPrefix,
          Str_Attached, PivotPrefix, Str_pivot_}
Pieces == {<<"_">>, <<"X">>, <<"x">>, <<"Q">>, <<"y","Z">>}

RECURSIVE TailsUpTo(_)
TailsUpTo(k) ==
  IF k = 0 THEN {<<>>}
  ELSE LET prev == TailsUpTo(k - 1)
       IN prev \cup {p \o t : p \in Pieces, t \in prev}

\* the names of the comments and the documentation
Name_Feature_XY_Scale_Box1 ==
  FeaturePrefix \o <<"X","Y","_","S","c","a","l","e","_","B","o","x","1">>
Name_Feature_Z_Rotate_Leg_Back ==
  FeaturePrefix \o <<"Z","_","R","o","t","a","t","e","_","L","e","g","_",
                     "B","a","c","k">>
Name_Feature_X_Scale == FeaturePrefix \o <<"X","_","S","c","a","l","e">>
Name_Feature_XQ_Scale_Box1 ==
  FeaturePrefix \o <<"X","Q","_","S","c","a","l","e","_","B","o","x","1">>
Name_Attached_leg1 == AttachedPrefix \o <<"l","e","g","1">>
Name_Pivot_leg1 == PivotPrefix \o <<"l","e","g","1">>

ExampleNames == {Name_Feature_XY_Scale_Box1, Name_Feature_Z_Rotate_Leg_Back,
                 Name_Feature_X_Scale, Name_Feature_XQ_Scale_Box1,
                 Name_Attached_leg1, Name_Pivot_leg1}

ParseNames == {h \o t : h \in Heads, t \in TailsUpTo(MaxPieces)}
                \cup ExampleNames

ParseInit ==
  /\ name \in ParseNames
  /\ featureInfo = Unset
  /\ attachmentInfo = Unset
  /\ ScanIdle
  /\ HostIdle

\* const featureInfo = parseFeatureName(child.name)
ParseFeature ==
  /\ featureInfo = Unset
  /\ featureInfo' = parseFeatureName(name)
  /\ UNCHANGED <<name, attachmentInfo, scanVars, hostVars>>

\* const attachmentInfo = parseAttachmentName(child.name)
ParseAttachment ==
  /\ attachmentInfo = Unset
  /\ attachmentInfo' = parseAttachmentName(name)
  /\ UNCHANGED <<name, featureInfo, scanVars, hostVars>>

ParseNext == ParseFeature \/ ParseAttachment

ParseSpec == ParseInit /\ [][ParseNext]_vars

\* the name is accepted by parseFeatureName and the result is available
FeatureAccepted == featureInfo # Unset /\ featureInfo # Null

\* the part of the name after "Feature_"
Remainder == substring(name, 8)

\* positions of the underscores of the remainder
Underscores == {i \in 1..Len(Remainder) : Remainder[i] = "_"}

\* position of the k-th underscore of the remainder (k = 1, 2)
FirstUnderscore == CHOOSE i \in Underscores : \A j \in Underscores : i <= j
SecondUnderscore ==
  CHOOSE i \in Underscores \ {FirstUnderscore} :
    \A j \in Underscores \ {FirstUnderscore} : i <= j

\* segment 0 of an accepted name
Segment0 == SubSeq(Remainder, 1, FirstUnderscore - 1)

\* the axis identifiers X, Y, Z of a segment: upper-cased, restricted to
\* {X,Y,Z}, without duplicates, in order of first appearance
RECURSIVE AxisSet(_, _)
AxisSet(cs, seen) ==
  IF Len(cs) = 0 THEN <<>>
  ELSE LET u == CharToUpperCase(Head(cs)) IN
       IF u \in {"X", "Y", "Z"} /\ u \notin seen
         THEN <<u>> \o AxisSet(Tail(cs), seen \cup {u})
         ELSE AxisSet(Tail(cs), seen)

\* C6: for every accepted name the returned axes are the characters of
\* segment 0 upper-cased, restricted to {X,Y,Z}, duplicates removed, in order
\* of first appearance.
C6_AxesUpperDedup ==
  FeatureAccepted => featureInfo.axes = AxisSet(Segment0, {})

\* C7: parseFeatureName returns none exactly when the name does not start
\* with "Feature_" or the remainder has fewer than 3 segments, that is fewer
\* than 2 underscores; every other name gives a descriptor.
C7_NoneIffTooShort ==
  featureInfo # Unset =>
    (featureInfo = Null <=>
       (~startsWith(name, FeaturePrefix) \/ Cardinality(Underscores) < 2))

C7_Witness ==
  /\ name = Name_Feature_X_Scale
  /\ featureInfo = Null

\* C8: for every accepted name, operation is segment 1 with its case
\* preserved and objectName is everything after the second underscore of the
\* remainder, inner underscores included.
C8_OperationObjectName ==
  FeatureAccepted =>
    /\ featureInfo.operation =
         SubSeq(Remainder, FirstUnderscore + 1, SecondUnderscore - 1)
    /\ featureInfo.objectName =
         SubSeq(Remainder, SecondUnderscore + 1, Len(Remainder))
    /\ (name = Name_Feature_Z_Rotate_Leg_Back =>
          /\ featureInfo.operation = <<"R","o","t","a","t","e">>
          /\ featureInfo.objectName = <<"L","e","g","_","B","a","c","k">>)

C8_Witness ==
  /\ name = Name_Feature_Z_Rotate_Leg_Back
  /\ FeatureAccepted
  /\ featureInfo.objectName = <<"L","e","g","_","B","a","c","k">>

\* C9: parseAttachmentName gives kind Attached and the suffix after
\* "Attached_" for names starting with "Attached_", kind Pivot and the suffix
\* after "Pivot_" for names starting with "Pivot_", none for any other name.
C9_AttachmentKinds ==
  attachmentInfo # Unset =>
    /\ startsWith(name, AttachedPrefix) =>
         /\ attachmentInfo # Null
         /\ attachmentInfo.type = "Attached"
         /\ AttachedPrefix \o attachmentInfo.targetName = name
    /\ startsWith(name, PivotPrefix) =>
         /\ attachmentInfo # Null
         /\ attachmentInfo.type = "Pivot"
         /\ PivotPrefix \o attachmentInfo.targetName = name
    /\ (~startsWith(name, AttachedPrefix) /\ ~startsWith(name, PivotPrefix))
         => attachmentInfo = Null

C9_Witness ==
  /\ name = Name_Pivot_leg1
  /\ attachmentInfo # Unset
  /\ attachmentInfo # Null
  /\ attachmentInfo.targetName = <<"l","e","g","1">>

----------------------------------------------------------------------------
(* The scan applied to bounded trees *)

\* number of nodes of a generated tree
ScanNodes == 4

Name_Feature_X_Scale_Top ==
  FeaturePrefix \o <<"X","_","S","c","a","l","e","_","T","o","p">>
Name_Pivot_hinge == PivotPrefix \o <<"h","i","n","g","e">>
Name_Attached_hinge == AttachedPrefix \o <<"h","i","n","g","e">>
Name_Leg == <<"L","e","g">>

ScanNames == {<<>>, Name_Feature_X_Scale_Top, Name_Pivot_hinge,
              Name_Attached_hinge, Name_Feature_X_Scale, Name_Leg}

\* the parent of every node: none for the root, an earlier node otherwise
ParentVectors(n) ==
  {par \in [1..n -> 0..(n - 1)] :
     par[1] = 0 /\ \A i \in 2..n : par[i] >= 1 /\ par[i] < i}

\* the ids in lo..hi whose parent is p, in increasing order
RECURSIVE ChildrenOf(_, _, _, _)
ChildrenOf(par, p, lo, hi) ==
  IF lo > hi THEN <<>>
  ELSE (IF par[lo] = p THEN <<lo>> ELSE <<>>) \o ChildrenOf(par, p, lo + 1, hi)

\* a tree with the given names and parents and the identity transform
PlainTree(names, par) ==
  [id \in DOMAIN par |->
     Node(names[id], par[id], ChildrenOf(par, id, 1, Len(par)),
          <<0, 0, 0>>, <<0, 0, 0>>, <<One, One, One>>)]

ScanTrees ==
  {PlainTree(names, par) :
     names \in [1..ScanNodes -> ScanNames], par \in ParentVectors(ScanNodes)}

ScanInit ==
  /\ model \in ScanTrees
  /\ found = Unset
  /\ ParseIdle
  /\ HostIdle

\* const { features, attachments, pivots, objectMap } = findStandardObjects(model)
Scan ==
  /\ found = Unset
  /\ found' = findStandardObjects(model)
  /\ UNCHANGED <<model, parseVars, hostVars>>

ScanNext == Scan

ScanSpec == ScanInit /\ [][ScanNext]_vars

\* the entries of a list that refer to a node
EntriesFor(list, id) == {i \in 1..Len(list) : list[i].object = id}

\* the ids of the nodes of the scanned model with a given name
NodesNamed(nm) == {id \in DOMAIN model : model[id].name = nm}

\* C10: every named node is in at most one of features, attachments, pivots:
\* in features iff parseFeatureName accepts its name, otherwise in attachments
\* iff its kind is Attached, otherwise in pivots iff its kind is Pivot; unnamed
\* nodes are in none; the tree whose named nodes are Feature_X_Scale_Top,
\* Pivot_hinge, Attached_hinge gives 1 feature, 1 attachment, 1 pivot and an
\* index of size 3.
C10_Classification ==
  found # Unset =>
    /\ \A id \in DOMAIN model :
         LET nf == Cardinality(EntriesFor(found.features, id))
             na == Cardinality(EntriesFor(found.attachments, id))
             np == Cardinality(EntriesFor(found.pivots, id))
             nm == model[id].name
             isF == parseFeatureName(nm) # Null
             kind == IF parseAttachmentName(nm) = Null THEN "none"
                     ELSE parseAttachmentName(nm).type
         IN /\ nf + na + np <= 1
            /\ nm = <<>> => nf + na + np = 0
            /\ nm # <<>> =>
                 /\ nf = 1 <=> isF
                 /\ na = 1 <=> (~isF /\ kind = "Attached")
                 /\ np = 1 <=> (~isF /\ kind = "Pivot")
    /\ (/\ Cardinality({id \in DOMAIN model : model[id].name # <<>>}) = 3
        /\ Cardinality(NodesNamed(Name_Feature_X_Scale_Top)) = 1
        /\ Cardinality(NodesNamed(Name_Pivot_hinge)) = 1
        /\ Cardinality(NodesNamed(Name_Attached_hinge)) = 1)
         => /\ Len(found.features) = 1
            /\ Len(found.attachments) = 1
            /\ Len(found.pivots) = 1
            /\ Cardinality(DOMAIN found.objectMap) = 3

C10_Witness ==
  /\ found # Unset
  /\ model[1].name = <<>>
  /\ model[2].name = Name_Attached_hinge
  /\ model[3].name = Name_Feature_X_Scale_Top
  /\ model[4].name = Name_Pivot_hinge
  /\ Len(found.features) = 1
  /\ Len(found.attachments) = 1
  /\ Len(found.pivots) = 1

----------------------------------------------------------------------------
(* Model loading and switching (models.js) *)

\* largest number of switchModel calls
MaxSwitch == 2
\* largest number of control change events
MaxChanges == 2

\* const MODELS; textures is the number of texture entries, scale a
\* component in thousandths
MODELS ==
  [house |-> [textures |-> 1, position |-> <<0, 0, 0>>,
              scale |-> <<150, 150, 150>>, standard_naming |-> FALSE],
   table |-> [textures |-> 0, position |-> <<0, 0, 0>>,
              scale |-> <<200, 200, 200>>, standard_naming |-> FALSE],
   abstract_table |-> [textures |-> 0, position |-> <<0, 0, 0>>,
                       scale |-> <<One, One, One>>, standard_naming |-> TRUE]]

\* the keys switchModel is called with: the three of the selector and one
\* that MODELS does not have
Keys == {"house", "table", "abstract_table", "chair"}

Name_Feature_XY_Scale_Top ==
  FeaturePrefix \o <<"X","Y","_","S","c","a","l","e","_","T","o","p">>
Name_Feature_xX_Scale_T == FeaturePrefix \o <<"x","X","_","S","c","a","l","e","_","T">>
Name_Feature_Y_Bend_T == FeaturePrefix \o <<"Y","_","B","e","n","d","_","T">>
Name_Feature_Q_Scale_T == FeaturePrefix \o <<"Q","_","S","c","a","l","e","_","T">>
Name_Feature_Z_Rotate_Arm ==
  FeaturePrefix \o <<"Z","_","R","o","t","a","t","e","_","A","r","m">>
Name_Attached_g == AttachedPrefix \o <<"g">>

Origin == <<0, 0, 0>>
Unit == <<One, One, One>>

\* a tree from the names, parents, positions, rotations and scales of its
\* nodes
MakeTree(names, par, pos, rot, sc) ==
  [id \in DOMAIN par |->
     Node(names[id], par[id], ChildrenOf(par, id, 1, Len(par)),
          pos[id], rot[id], sc[id])]

\* a feature on two axes that carries the pivot of an attachment
Tree_Top ==
  MakeTree(<<<<>>, Name_Feature_XY_Scale_Top, Name_Pivot_hinge,
             Name_Attached_hinge>>,
           <<0, 1, 2, 1>>,
           <<Origin, <<4, 0, 0>>, <<0, 8, 0>>, Origin>>,
           <<Origin, Origin, Origin, Origin>>,
           <<Unit, Unit, Unit, Unit>>)

\* a pivot that is a child of the attachment it drives
Tree_Nested ==
  MakeTree(<<<<>>, Name_Attached_hinge, Name_Pivot_hinge,
             Name_Feature_Z_Rotate_Leg_Back>>,
           <<0, 1, 2, 1>>,
           <<Origin, <<4, 0, 0>>, <<0, 8, 0>>, Origin>>,
           <<Origin, Origin, Origin, Origin>>,
           <<Unit, Unit, Unit, Unit>>)

\* a repeated axis letter, an operation the binder does not implement, a
\* feature without axis and an attachment without pivot
Tree_Odd ==
  MakeTree(<<Name_Leg, Name_Feature_xX_Scale_T, Name_Feature_Y_Bend_T,
             Name_Feature_Q_Scale_T, Name_Attached_g>>,
           <<0, 1, 1, 1, 1>>,
           <<Origin, Origin, Origin, Origin, <<0, 4, 0>>>>,
           <<Origin, Origin, Origin, Origin, Origin>>,
           <<Unit, <<2 * One, One, One>>, Unit, Unit, Unit>>)

\* a pivot and nothing else
Tree_PivotOnly ==
  MakeTree(<<<<>>, Name_Pivot_hinge>>, <<0, 1>>,
           <<Origin, <<4, 0, 0>>>>, <<Origin, Origin>>, <<Unit, Unit>>)

\* no name of the convention
Tree_Plain ==
  MakeTree(<<Name_Leg>>, <<0>>, <<Origin>>, <<Origin>>, <<Unit>>)

\* a rotated arm that carries the pivot of an attachment whose parent is
\* moved and scaled
Tree_Arm ==
  MakeTree(<<<<>>, Name_Feature_Z_Rotate_Arm, Name_Pivot_hinge, Name_Leg,
             Name_Attached_hinge>>,
           <<0, 1, 2, 1, 4>>,
           <<Origin, Origin, <<8, 0, 0>>, <<4, 0, 0>>, Origin>>,
           <<Origin, Origin, Origin, Origin, Origin>>,
           <<Unit, Unit, Unit, <<2 * One, 2 * One, 2 * One>>, Unit>>)

\* what fbxLoader.loadAsync can deliver for a path: the content of the asset
\* files is not part of the repository
Assets(key) ==
  IF MODELS[key].standard_naming
    THEN {Tree_Top, Tree_Nested, Tree_Odd, Tree_PivotOnly, Tree_Plain,
          Tree_Arm}
    ELSE {Tree_Plain}

\* the values a change event can carry: the slider keeps them in [min, max]
ChangeValues(c) ==
  {v \in (IF c.kind = "scale" THEN {One \div 2, 2 * One} ELSE {-90, 90}) :
     c.min <= v /\ v <= c.max}

Init ==
  /\ HostIdle
  /\ ParseIdle
  /\ ScanIdle

\* the part of loadAndShowModel after the awaits, and the assignment of its
\* result to currentModel in switchModel; os is objs with the new object
ShowModel(call, obj, os) ==
  LET cfg == MODELS[call.key]
      placed == [SessionState EXCEPT
                   !.objs = [os EXCEPT ![obj][1].position = cfg.position,
                                       ![obj][1].scale = cfg.scale]]
      st == IF cfg.standard_naming THEN setupStandardNamingGUI(placed, obj)
            ELSE placed
  IN /\ scene' = scene \cup {obj}
     /\ objs' = st.objs
     /\ folders' = st.folders
     /\ featuresFolder' = st.featuresFolder
     /\ attachmentsFolder' = st.attachmentsFolder
     /\ featureControllers' = st.featureControllers
     /\ currentModel' = obj
     /\ calls' = calls \ {call}
     /\ last' = [op |-> "show", object |-> obj, setup |-> cfg.standard_naming]

\* switchModel(key) up to its first await
SwitchModel(key) ==
  /\ nSwitch < MaxSwitch
  /\ nSwitch' = nSwitch + 1
  /\ LET st == clearStandardNamingGUI(SessionState)
     IN /\ folders' = st.folders
        /\ featuresFolder' = st.featuresFolder
        /\ attachmentsFolder' = st.attachmentsFolder
        /\ featureControllers' = st.featureControllers
  /\ scene' = IF currentModel # None THEN scene \ {currentModel} ELSE scene
  /\ currentModel' = None
  /\ calls' = IF key \in DOMAIN MODELS
                THEN calls \cup {[id |-> nSwitch + 1, key |-> key,
                                  pc |-> "loadAsync", object |-> None]}
                ELSE calls
  /\ last' = [op |-> "switch", key |-> key]
  /\ UNCHANGED <<objs, nChange, parseVars, scanVars>>

\* fbxLoader.loadAsync resolves with a new object; without textures
\* applyTextures returns at once and the call runs to its end
LoadResolved(call, tree) ==
  /\ call \in calls
  /\ call.pc = "loadAsync"
  /\ tree \in Assets(call.key)
  /\ LET obj == Len(objs) + 1 IN
       IF MODELS[call.key].textures > 0
         THEN /\ objs' = Append(objs, tree)
              /\ calls' = (calls \ {call}) \cup
                   {[call EXCEPT !.pc = "applyTextures", !.object = obj]}
              /\ last' = [op |-> "loaded", object |-> obj]
              /\ UNCHANGED <<currentModel, scene, featuresFolder,
                             attachmentsFolder, featureControllers, folders>>
         ELSE ShowModel(call, obj, Append(objs, tree))
  /\ UNCHANGED <<nSwitch, nChange, parseVars, scanVars>>

\* fbxLoader.loadAsync rejects: the catch of switchModel logs the error
LoadRejected(call) ==
  /\ call \in calls
  /\ call.pc = "loadAsync"
  /\ calls' = calls \ {call}
  /\ last' = [op |-> "failed", call |-> call.id]
  /\ UNCHANGED <<currentModel, scene, objs, featuresFolder, attachmentsFolder,
                 featureControllers, folders, nSwitch, nChange, parseVars,
                 scanVars>>

\* the textures of applyTextures have loaded
TexturesResolved(call) ==
  /\ call \in calls
  /\ call.pc = "applyTextures"
  /\ ShowModel(call, call.object, objs)
  /\ UNCHANGED <<nSwitch, nChange, parseVars, scanVars>>

\* textureLoader.loadAsync rejects: the catch of switchModel logs the error
TexturesRejected(call) ==
  /\ call \in calls
  /\ call.pc = "applyTextures"
  /\ calls' = calls \ {call}
  /\ last' = [op |-> "failed", call |-> call.id]
  /\ UNCHANGED <<currentModel, scene, objs, featuresFolder, attachmentsFolder,
                 featureControllers, folders, nSwitch, nChange, parseVars,
                 scanVars>>

\* a change handler that applies the value and leaves the attachments alone
ControlChange_noPropagate(f, i, value) ==
  /\ nChange < MaxChanges
  /\ f \in 1..Len(folders)
  /\ folders[f].live
  /\ i \in 1..Len(folders[f].controllers)
  /\ value \in ChangeValues(folders[f].controllers[i])
  /\ LET c == folders[f].controllers[i]
         obj == folders[f].object
         applied == IF c.kind = "scale"
                      THEN applyFeatureScale(objs[obj], c.object, <<c.axis>>, value)
                      ELSE applyFeatureRotation(objs[obj], c.object, <<c.axis>>, value)
     IN /\ folders' = [folders EXCEPT ![f].controllers[i].value = value]
        /\ objs' = [objs EXCEPT ![obj] = applied]
  /\ nChange' = nChange + 1
  /\ last' = [op |-> "change", folder |-> f, index |-> i, value |-> value,
              propagated |-> 0]
  /\ UNCHANGED <<currentModel, scene, calls, featuresFolder, attachmentsFolder,
                 featureControllers, nSwitch, parseVars, scanVars>>

\* the panel dispatches a change of controller i of the live folder f: the
\* value is stored in the control object, then the onChange handler runs
ControlChange(f, i, value) ==
  /\ nChange < MaxChanges
  /\ f \in 1..Len(folders)
  /\ folders[f].live
  /\ i \in 1..Len(folders[f].controllers)
  /\ value \in ChangeValues(folders[f].controllers[i])
  /\ LET c == folders[f].controllers[i]
         obj == folders[f].object
         applied == IF c.kind = "scale"
                      THEN applyFeatureScale(objs[obj], c.object, <<c.axis>>, value)
                      ELSE applyFeatureRotation(objs[obj], c.object, <<c.axis>>, value)
     IN /\ folders' = [folders EXCEPT ![f].controllers[i].value = value]
        /\ objs' = [objs EXCEPT ![obj] =
                      processAttachments(applied, folders[f].attachments,
                                         folders[f].objectMap)]
  /\ nChange' = nChange + 1
  /\ last' = [op |-> "change", folder |-> f, index |-> i, value |-> value,
              propagated |-> 1]
  /\ UNCHANGED <<currentModel, scene, calls, featuresFolder, attachmentsFolder,
                 featureControllers, nSwitch, parseVars, scanVars>>

Next ==
  \/ \E key \in Keys : SwitchModel(key)
  \/ \E call \in calls : \E tree \in Assets(call.key) : LoadResolved(call, tree)
  \/ \E call \in calls : LoadRejected(call)
  \/ \E call \in calls : TexturesResolved(call)
  \/ \E call \in calls : TexturesRejected(call)
  \/ \E f \in 1..Len(folders) : \E i \in 1..Len(folders[f].controllers) :
       \E value \in ChangeValues(folders[f].controllers[i]) :
         ControlChange(f, i, value)

Spec == Init /\ [][Next]_vars

----------------------------------------------------------------------------
(* Properties of the naming session and the model switching *)

\* the last step ran setupStandardNamingGUI (begin)
BeginRan == last.op = "show" /\ last.setup

\* the live folders
LiveFolders == {f \in 1..Len(folders) : folders[f].live}

\* C1: after begin on a model, no folder or controller generated for an
\* earlier model remains: every live folder and every entry of
\* featureControllers was generated from the model begin was run on, and is
\* bound to one of its nodes.
C1_NoEarlierControls ==
  BeginRan =>
    /\ \A f \in LiveFolders : folders[f].object = last.object
    /\ \A k \in 1..Len(featureControllers) :
         LET ref == featureControllers[k] IN
           /\ ref.folder \in LiveFolders
           /\ folders[ref.folder].object = last.object
           /\ ref.index \in 1..Len(folders[ref.folder].controllers)
           /\ folders[ref.folder].controllers[ref.index].object
                \in DOMAIN objs[last.object]

\* begin has run on a second model while the first model, for which folders
\* had been generated, was still in the scene
C1_Witness ==
  /\ BeginRan
  /\ Len(featureControllers) > 0
  /\ \E f \in 1..Len(folders) :
       /\ folders[f].object # last.object
       /\ folders[f].object \in scene
       /\ Len(folders[f].controllers) > 0
       /\ ~folders[f].live

\* C2: at most one session is active at a time and, once no switch is in
\* flight, the live generated folders were generated from currentModel.
C2_SwitchesSerialized ==
  /\ \A f, g \in LiveFolders : folders[f].object = folders[g].object
  /\ calls = {} =>
       \A f \in LiveFolders :
         currentModel # None /\ folders[f].object = currentModel

\* the position processAttachments gives an attachment in the model m: the
\* world position of the driving node in the space of the attachment's parent
DrivenPosition(m, att, target) ==
  IF m[att.object].parent # 0
    THEN worldToLocal(m, m[att.object].parent, getWorldPosition(m, target))
    ELSE getWorldPosition(m, target)

\* the driving node of an attachment
DrivingNode(objectMap, att) ==
  IF (PivotPrefix \o att.targetName) \in DOMAIN objectMap
    THEN objectMap[PivotPrefix \o att.targetName]
  ELSE IF (AttachedPrefix \o att.targetName) \in DOMAIN objectMap
    THEN objectMap[AttachedPrefix \o att.targetName]
  ELSE None

\* the last step ran processAttachments
PropagateRan == last.op = "change" \/ BeginRan

\* the object whose attachments the last step has propagated
PropagatedObject ==
  IF last.op = "change" THEN folders[last.folder].object ELSE last.object

\* C3: when processAttachments returns, every attachment of the list whose
\* driving node was resolved has a local position equal to the world position
\* of that node, as it is in the final state, converted into the space of the
\* attachment's parent; for all attachments at once.
C3_AttachmentsAtPivots ==
  PropagateRan =>
    LET m == objs[PropagatedObject]
        scan == findStandardObjects(m)
    IN \A k \in 1..Len(scan.attachments) :
         LET att == scan.attachments[k]
             target == DrivingNode(scan.objectMap, att)
         IN target # None =>
              m[att.object].position = DrivenPosition(m, att, target)

\* the controller whose change handler made the step
FiredController == folders[last'.folder].controllers[last'.index]

\* C4: the change handler of a control for axis a changes exactly component
\* a of the scale (scale) or of the rotation (rotation, rotate) of the target
\* node; the other two components, the other transform fields of the node and
\* the stored value of every other control stay as they are.
C4_OneComponent ==
  [][last'.op = "change" =>
       LET c == FiredController
           o == folders[last'.folder].object
           k == AxisIndex(CharToLowerCase(c.axis))
           before == objs[o][c.object]
           after == objs'[o][c.object]
       IN /\ after.position = before.position
          /\ c.kind = "scale" =>
               /\ after.scale[k] = last'.value
               /\ \A j \in (1..3) \ {k} : after.scale[j] = before.scale[j]
               /\ after.rotation = before.rotation
          /\ c.kind = "rotation" =>
               /\ after.rotation[k] * 90 = last'.value
               /\ \A j \in (1..3) \ {k} : after.rotation[j] = before.rotation[j]
               /\ after.scale = before.scale
          /\ \A g \in 1..Len(folders) :
               \A j \in 1..Len(folders[g].controllers) :
                 (g # last'.folder \/ j # last'.index) =>
                   folders'[g].controllers[j].value
                     = folders[g].controllers[j].value]_vars

\* a change of one of two controls that target the same node on different
\* axes has been handled
C4_Witness ==
  /\ last.op = "change"
  /\ LET cs == folders[last.folder].controllers
         c == cs[last.index]
     IN /\ c.kind = "scale"
        /\ c.value = 2 * One
        /\ \E j \in 1..Len(cs) :
             /\ cs[j].object = c.object
             /\ CharToLowerCase(cs[j].axis) # CharToLowerCase(c.axis)
             /\ cs[j].value = One

\* the operation tokens the binder implements
Supported(operation) ==
  toLowerCase(operation) \in {Str_scale, Str_rotation, Str_rotate}

\* the controllers of the Features folder of the session
SessionControllers ==
  IF featuresFolder = None THEN <<>> ELSE folders[featuresFolder].controllers

\* the elements of a sequence
Range(seq) == {seq[i] : i \in 1..Len(seq)}

\* C5: begin generates exactly one control for each (feature, axis) pair
\* whose operation is scale, rotation or rotate, case-insensitively, and none
\* for any other operation or axis.
C5_OneControlPerAxis ==
  BeginRan =>
    LET m == objs[last.object]
        scan == findStandardObjects(m)
    IN \A k \in 1..Len(scan.features) : \A axis \in {"X", "Y", "Z"} :
         LET feature == scan.features[k]
             segment0 == split(substring(feature.fullName, 8))[1]
             declared == axis \in Range(AxisSet(segment0, {}))
             generated ==
               {i \in 1..Len(SessionControllers) :
                  /\ SessionControllers[i].object = feature.object
                  /\ CharToUpperCase(SessionControllers[i].axis) = axis}
         IN Cardinality(generated) =
              (IF declared /\ Supported(feature.operation) THEN 1 ELSE 0)

----------------------------------------------------------------------------
(* The naming session called directly: setupStandardNamingGUI (begin) and
   clearStandardNamingGUI (end) are the exports of standardNaming.js *)

Name_Feature_X_Scale_B == FeaturePrefix \o <<"X","_","S","c","a","l","e","_","B">>
Name_Feature_X_Rotate_B ==
  FeaturePrefix \o <<"X","_","R","o","t","a","t","e","_","B">>
Name_Feature_x_rotation_B ==
  FeaturePrefix \o <<"x","_","r","o","t","a","t","i","o","n","_","B">>

\* baked-in scale components: -1.0, 0, 0.005, 0.05, 0.1, 1.0, 2.0
BakedScales == {-One, 0, 5, 50, 100, One, 2 * One}
\* baked-in Euler angles, in quarter turns
BakedRotations == {-3, -2, -1, 0, 1, 2, 3}

\* a root with one feature whose x components are baked in
BakedTree(nm, sc, rot) ==
  MakeTree(<<<<>>, nm>>, <<0, 1>>, <<Origin, Origin>>,
           <<Origin, <<rot, 0, 0>>>>, <<Unit, <<sc, One, One>>>>)

BakedTrees ==
  {BakedTree(nm, sc, rot) :
     nm \in {Name_Feature_X_Scale_B, Name_Feature_X_Rotate_B,
             Name_Feature_x_rotation_B},
     sc \in BakedScales, rot \in BakedRotations}

\* two attachments of the same name and no pivot
Tree_Twins ==
  MakeTree(<<<<>>, Name_Attached_g, Name_Leg, Name_Attached_g>>,
           <<0, 1, 1, 3>>,
           <<Origin, <<4, 0, 0>>, <<0, 4, 0>>, <<0, 0, 8>>>>,
           <<Origin, Origin, Origin, Origin>>,
           <<Unit, Unit, Unit, Unit>>)

\* an attachment without pivot under a rotated and scaled feature
Tree_Hang ==
  MakeTree(<<<<>>, Name_Feature_Z_Rotate_Arm, Name_Attached_g>>,
           <<0, 1, 2>>,
           <<Origin, <<0, 4, 0>>, <<4, 0, 0>>>>,
           <<Origin, <<0, 0, 1>>, Origin>>,
           <<Unit, <<2 * One, 2 * One, 2 * One>>, Unit>>)

SessionTrees ==
  {Tree_Top, Tree_Nested, Tree_Odd, Tree_PivotOnly, Tree_Plain, Tree_Arm,
   Tree_Twins, Tree_Hang} \cup BakedTrees

SessionInit ==
  /\ objs \in {<<t>> : t \in SessionTrees}
  /\ currentModel = None
  /\ scene = {}
  /\ calls = {}
  /\ featuresFolder = None
  /\ attachmentsFolder = None
  /\ featureControllers = <<>>
  /\ folders = <<>>
  /\ nSwitch = 0
  /\ nChange = 0
  /\ last = [op |-> "init"]
  /\ ParseIdle
  /\ ScanIdle

\* setupStandardNamingGUI(model)
Begin(obj) ==
  /\ nSwitch < MaxSwitch
  /\ nSwitch' = nSwitch + 1
  /\ obj \in 1..Len(objs)
  /\ LET st == setupStandardNamingGUI(SessionState, obj)
     IN /\ objs' = st.objs
        /\ folders' = st.folders
        /\ featuresFolder' = st.featuresFolder
        /\ attachmentsFolder' = st.attachmentsFolder
        /\ featureControllers' = st.featureControllers
        /\ last' = [op |-> "begin", object |-> obj,
                    propagated |-> st.propagated, threw |-> FALSE]
  /\ UNCHANGED <<currentModel, scene, calls, nChange, parseVars, scanVars>>

\* clearStandardNamingGUI()
End ==
  /\ nSwitch < MaxSwitch
  /\ nSwitch' = nSwitch + 1
  /\ LET st == clearStandardNamingGUI(SessionState)
     IN /\ folders' = st.folders
        /\ featuresFolder' = st.featuresFolder
        /\ attachmentsFolder' = st.attachmentsFolder
        /\ featureControllers' = st.featureControllers
  /\ last' = [op |-> "end", prior |-> last.op]
  /\ UNCHANGED <<currentModel, scene, objs, calls, nChange, parseVars,
                 scanVars>>

SessionNext ==
  \/ \E obj \in 1..Len(objs) : Begin(obj)
  \/ End
  \/ \E f \in 1..Len(folders) : \E i \in 1..Len(folders[f].controllers) :
       \E value \in ChangeValues(folders[f].controllers[i]) :
         ControlChange(f, i, value)

SessionSpec == SessionInit /\ [][SessionNext]_vars

\* the last step was a direct call of begin
BeginCalled == last.op = "begin"

\* the controllers of the live folders
LiveControllers ==
  UNION {{folders[f].controllers[i] : i \in 1..Len(folders[f].controllers)} :
           f \in LiveFolders}

\* C11: a scale control with initial value i has min = max(0.01, 0.1 * i) and
\* max = 10 * i, so i = 2.0 gives [0.2, 20.0] and i = 0.05 gives [0.01, 0.5];
\* a rotation control has the bounds [-180, 180] whatever its initial value.
C11_SliderBounds ==
  BeginCalled =>
    \A c \in LiveControllers :
      /\ c.kind = "scale" =>
           /\ c.max = 10 * c.value
           /\ c.value >= One \div 10 => 10 * c.min = c.value
           /\ c.value <= One \div 10 => 100 * c.min = One
           /\ c.value = 2 * One => c.min = One \div 5 /\ c.max = 20 * One
           /\ c.value = One \div 20 => c.min = One \div 100 /\ c.max = One \div 2
      /\ c.kind = "rotation" => c.min = -180 /\ c.max = 180

C11_Witness ==
  /\ BeginCalled
  /\ \E c \in LiveControllers :
       c.kind = "scale" /\ c.value = One \div 20 /\ c.min = One \div 100

\* C12: end is total and idempotent: called in any state (before any begin,
\* after a begin, right after another end) it leaves featuresFolder and
\* attachmentsFolder null, featureControllers empty and no folder in the
\* panel, and a second call changes nothing.
C12_EndIdempotent ==
  last.op = "end" =>
    /\ featuresFolder = None
    /\ attachmentsFolder = None
    /\ featureControllers = <<>>
    /\ LiveFolders = {}
    /\ clearStandardNamingGUI(SessionState) = SessionState

C12_Witness ==
  /\ last.op = "end"
  /\ last.prior = "end"
  /\ featuresFolder = None
  /\ featureControllers = <<>>

----------------------------------------------------------------------------
(* The binder of the monolithic revision, src/src/main.js: one control for
   each feature, read from and applied to the axes of the feature together *)

\* the callback of features.forEach: axes[0].toLowerCase() is a TypeError
\* when the feature has no axis
ControllersForFeatureMain(m, feature) ==
  LET opLower == toLowerCase(feature.operation)
      controlName == feature.objectName \o <<" ", "(">> \o feature.axes
                       \o <<" ">> \o feature.operation \o <<")">>
      firstAxis == CharToLowerCase(feature.axes[1])
      sc == m[feature.object].scale[AxisIndex(firstAxis)]
      rot == m[feature.object].rotation[AxisIndex(firstAxis)]
      scaleValue == IF sc = 0 THEN One ELSE sc
  IN IF opLower = Str_scale
       THEN IF Len(feature.axes) = 0
              THEN [threw |-> TRUE, controllers |-> <<>>]
              ELSE [threw |-> FALSE,
                    controllers |->
                      <<[object |-> feature.object, axes |-> feature.axes,
                         kind |-> "scale", name |-> controlName,
                         value |-> scaleValue, min |-> minScale(scaleValue),
                         max |-> maxScale(scaleValue)]>>]
     ELSE IF opLower = Str_rotation \/ opLower = Str_rotate
       THEN IF Len(feature.axes) = 0
              THEN [threw |-> TRUE, controllers |-> <<>>]
              ELSE [threw |-> FALSE,
                    controllers |->
                      <<[object |-> feature.object, axes |-> feature.axes,
                         kind |-> "rotation", name |-> controlName,
                         value |-> radToDeg(rot), min |-> -180, max |-> 180]>>]
     ELSE [threw |-> FALSE, controllers |-> <<>>]

\* features.forEach, left at the first exception
RECURSIVE ControllersForMain(_, _)
ControllersForMain(m, features) ==
  IF Len(features) = 0 THEN [threw |-> FALSE, controllers |-> <<>>]
  ELSE LET first == ControllersForFeatureMain(m, Head(features))
           rest == ControllersForMain(m, Tail(features))
       IN IF first.threw THEN first
          ELSE [threw |-> rest.threw,
                controllers |-> first.controllers \o rest.controllers]

\* setupStandardNamingGUI of main.js
setupStandardNamingGUIMain(st, obj) ==
  LET s0 == clearStandardNamingGUI(st)
      m == s0.objs[obj]
      scan == findStandardObjects(m)
      bound == ControllersForMain(m, scan.features)
      ctrls == bound.controllers
      fid == Len(s0.folders) + 1
      s1 == IF Len(scan.features) > 0
              THEN [s0 EXCEPT
                      !.folders = Append(@,
                        [title |-> "Features", live |-> TRUE, closed |-> FALSE,
                         object |-> obj, controllers |-> ctrls,
                         attachments |-> scan.attachments,
                         objectMap |-> scan.objectMap,
                         info |-> Null]),
                      !.featuresFolder = fid,
                      !.featureControllers =
                        [i \in 1..Len(ctrls) |-> [folder |-> fid, index |-> i]]]
              ELSE s0
      aid == Len(s1.folders) + 1
      s2 == IF Len(scan.attachments) > 0 \/ Len(scan.pivots) > 0
              THEN [s1 EXCEPT
                      !.folders = Append(@,
                        [title |-> "Attachments Info", live |-> TRUE,
                         closed |-> TRUE, object |-> obj, controllers |-> <<>>,
                         attachments |-> <<>>, objectMap |-> <<>>,
                         info |-> [attachments |-> Len(scan.attachments),
                                   pivots |-> Len(scan.pivots)]]),
                      !.attachmentsFolder = aid]
              ELSE s1
  IN IF Len(scan.features) = 0 /\ Len(scan.attachments) = 0 THEN s0
     ELSE IF bound.threw THEN [s1 EXCEPT !.threw = TRUE]
     ELSE [s2 EXCEPT !.objs[obj] =
                       processAttachments(m, scan.attachments, scan.objectMap),
                     !.propagated = @ + 1]

BeginMain(obj) ==
  /\ nSwitch < MaxSwitch
  /\ nSwitch' = nSwitch + 1
  /\ obj \in 1..Len(objs)
  /\ LET st == setupStandardNamingGUIMain(SessionState, obj)
     IN /\ objs' = st.objs
        /\ folders' = st.folders
        /\ featuresFolder' = st.featuresFolder
        /\ attachmentsFolder' = st.attachmentsFolder
        /\ featureControllers' = st.featureControllers
        /\ last' = [op |-> "begin", object |-> obj,
                    propagated |-> st.propagated, threw |-> st.threw]
  /\ UNCHANGED <<currentModel, scene, calls, nChange, parseVars, scanVars>>

\* the onChange handler of main.js applies the value to every axis of the
\* feature
ControlChangeMain(f, i, value) ==
  /\ nChange < MaxChanges
  /\ f \in 1..Len(folders)
  /\ folders[f].live
  /\ i \in 1..Len(folders[f].controllers)
  /\ value \in ChangeValues(folders[f].controllers[i])
  /\ LET c == folders[f].controllers[i]
         obj == folders[f].object
         applied == IF c.kind = "scale"
                      THEN applyFeatureScale(objs[obj], c.object, c.axes, value)
                      ELSE applyFeatureRotation(objs[obj], c.object, c.axes, value)
     IN /\ folders' = [folders EXCEPT ![f].controllers[i].value = value]
        /\ objs' = [objs EXCEPT ![obj] =
                      processAttachments(applied, folders[f].attachments,
                                         folders[f].objectMap)]
  /\ nChange' = nChange + 1
  /\ last' = [op |-> "change", folder |-> f, index |-> i, value |-> value,
              propagated |-> 1]
  /\ UNCHANGED <<currentModel, scene, calls, featuresFolder, attachmentsFolder,
                 featureControllers, nSwitch, parseVars, scanVars>>

MainNext ==
  \/ \E obj \in 1..Len(objs) : BeginMain(obj)
  \/ \E f \in 1..Len(folders) : \E i \in 1..Len(folders[f].controllers) :
       \E value \in ChangeValues(folders[f].controllers[i]) :
         ControlChangeMain(f, i, value)

MainSpec == SessionInit /\ [][MainNext]_vars

\* C13: begin never raises on a tree of arbitrary names: a feature without a
\* valid axis letter, an unsupported operation or a dangling attachment
\* yields nothing for that item, and the rest is still processed: every
\* feature of a supported operation with an axis has its control, the
\* attachments folder is there and the attachments are propagated.
C13_BeginNeverRaises ==
  BeginCalled =>
    LET scan == findStandardObjects(objs[last.object])
    IN /\ ~last.threw
       /\ \A k \in 1..Len(scan.features) :
            Supported(scan.features[k].operation)
              /\ Len(scan.features[k].axes) > 0
            => \E c \in LiveControllers : c.object = scan.features[k].object
       /\ Len(scan.attachments) > 0 =>
            attachmentsFolder # None /\ last.propagated = 1

\* the attachments from the k-th on, each moved to its driving node in turn
RECURSIVE ResolveFrom(_, _, _, _)
ResolveFrom(m, atts, objectMap, k) ==
  IF k > Len(atts) THEN m
  ELSE LET target == DrivingNode(objectMap, atts[k])
           moved == IF target = None THEN m
                    ELSE [m EXCEPT ![atts[k].object].position =
                                     DrivenPosition(m, atts[k], target)]
       IN ResolveFrom(moved, atts, objectMap, k + 1)

\* C14: the propagator resolves the driving node of an attachment with target
\* t as index["Pivot_" + t] if that is present and as index["Attached_" + t]
\* otherwise; if neither is present the attachment keeps its position, and
\* the remaining attachments are still processed.
C14_DrivingNodeOrder ==
  [][last'.op = "begin" /\ last'.propagated = 1 =>
       LET m == objs[last'.object]
           scan == findStandardObjects(m)
       IN objs'[last'.object] =
            ResolveFrom(m, scan.attachments, scan.objectMap, 1)]_vars

C14_Witness ==
  /\ BeginCalled
  /\ last.propagated = 1
  /\ LET m == objs[last.object]
         scan == findStandardObjects(m)
     IN \E k \in 1..Len(scan.attachments) :
          LET att == scan.attachments[k]
          IN /\ (PivotPrefix \o att.targetName) \in DOMAIN scan.objectMap
             /\ (AttachedPrefix \o att.targetName) \in DOMAIN scan.objectMap
             /\ scan.objectMap[PivotPrefix \o att.targetName] # att.object
             /\ m[att.object].position =
                  DrivenPosition(m, att,
                                 scan.objectMap[PivotPrefix \o att.targetName])
             /\ m[att.object].position # Origin

\* the model after the handler of controller c has set its component
AppliedChange(m, c, value) ==
  LET k == AxisIndex(CharToLowerCase(c.axis))
  IN IF c.kind = "scale"
       THEN [m EXCEPT ![c.object].scale[k] = value]
       ELSE [m EXCEPT ![c.object].rotation[k] = degToRad(value)]

\* the propagation of a change step: once, after the component is set, over
\* the lists of the scan of the session the control belongs to
ChangePropagatesOnce ==
  last'.op = "change" =>
    LET f == last'.folder
        m == objs[folders[f].object]
        scan == findStandardObjects(m)
    IN /\ last'.propagated = 1
       /\ folders[f].attachments = scan.attachments
       /\ folders[f].objectMap = scan.objectMap
       /\ objs'[folders[f].object] =
            ResolveFrom(AppliedChange(m, folders[f].controllers[last'.index],
                                      last'.value),
                        scan.attachments, scan.objectMap, 1)

\* C15: the propagator runs exactly once in every begin, after the scan, and
\* exactly once after every control change, after the scale or rotation is
\* applied, always over the attachment list and index of that session's scan.
C15_PropagatesOnceEveryBegin ==
  [][/\ last'.op = "begin" =>
          LET m == objs[last'.object]
              scan == findStandardObjects(m)
          IN /\ last'.propagated = 1
             /\ objs'[last'.object] =
                  ResolveFrom(m, scan.attachments, scan.objectMap, 1)
     /\ ChangePropagatesOnce]_vars

\* C15 as the code has it: the propagator runs exactly once in every begin
\* whose scan finds a feature or an attachment and not at all in a begin whose
\* scan finds neither; it runs exactly once after every control change, after
\* the scale or rotation is applied, over the lists of that session's scan.
C15_PropagatesOnceWhenFound ==
  [][/\ last'.op = "begin" =>
          LET m == objs[last'.object]
              scan == findStandardObjects(m)
          IN IF Len(scan.features) = 0 /\ Len(scan.attachments) = 0
               THEN last'.propagated = 0 /\ objs' = objs
               ELSE /\ last'.propagated = 1
                    /\ objs'[last'.object] =
                         ResolveFrom(m, scan.attachments, scan.objectMap, 1)
     /\ ChangePropagatesOnce]_vars

C15_Witness ==
  /\ last.op = "change"
  /\ last.propagated = 1
  /\ Len(folders[last.folder].attachments) > 0
  /\ \E k \in 1..Len(folders[last.folder].attachments) :
       objs[folders[last.folder].object]
           [folders[last.folder].attachments[k].object].position # Origin

\* the ids from the root down to a node
RECURSIVE PathOf(_, _)
PathOf(m, id) ==
  IF m[id].parent = 0 THEN <<id>> ELSE Append(PathOf(m, m[id].parent), id)

\* the place of a child in the children of its parent
ChildIndex(m, id) ==
  CHOOSE i \in 1..Len(m[m[id].parent].children) :
    m[m[id].parent].children[i] = id

\* pre-order: an ancestor comes before its descendants, and the subtree of a
\* child before the subtrees of the children after it
VisitedBefore(m, a, b) ==
  LET pa == PathOf(m, a)
      pb == PathOf(m, b)
  IN /\ a # b
     /\ \/ Len(pa) < Len(pb) /\ SubSeq(pb, 1, Len(pa)) = pa
        \/ \E k \in 2..Len(pa) :
             /\ k <= Len(pb)
             /\ SubSeq(pa, 1, k - 1) = SubSeq(pb, 1, k - 1)
             /\ pa[k] # pb[k]
             /\ ChildIndex(m, pa[k]) < ChildIndex(m, pb[k])

\* C16: after a scan the index has an entry for every node with a non-empty
\* name and none for the unnamed nodes, and for a name that several nodes
\* share the entry refers to the one visited last in pre-order.
C16_IndexLastVisited ==
  found # Unset =>
    /\ DOMAIN found.objectMap =
         {model[id].name : id \in DOMAIN model} \ {<<>>}
    /\ \A nm \in DOMAIN found.objectMap :
         /\ found.objectMap[nm] \in NodesNamed(nm)
         /\ \A other \in NodesNamed(nm) \ {found.objectMap[nm]} :
              VisitedBefore(model, other, found.objectMap[nm])

C16_Witness ==
  /\ found # Unset
  /\ model[1].name = <<>>
  /\ model[2].name = Name_Pivot_hinge
  /\ model[3].name = Name_Leg
  /\ model[4].name = Name_Leg
  /\ model[3].parent = 1
  /\ model[4].parent = 2
  /\ found.objectMap[Name_Leg] = 3
  /\ DOMAIN found.objectMap = {Name_Pivot_hinge, Name_Leg}

\* C17: after begin on a tree with at least one attachment or at least one
\* pivot the collapsed folder "Attachments Info" exists and shows the number
\* of attachments and the number of pivots, also when the tree has pivots but
\* no feature and no attachment.
C17_AttachmentsInfo ==
  BeginCalled =>
    LET scan == findStandardObjects(objs[last.object])
    IN Len(scan.attachments) > 0 \/ Len(scan.pivots) > 0 =>
         /\ attachmentsFolder # None
         /\ folders[attachmentsFolder].live
         /\ folders[attachmentsFolder].title = "Attachments Info"
         /\ folders[attachmentsFolder].closed
         /\ folders[attachmentsFolder].info =
              [attachments |-> Len(scan.attachments),
               pivots |-> Len(scan.pivots)]

\* C18: every control is created with min <= initial value <= max: a scale
\* control for every baked-in scale component, also one below 0.01, zero or
\* negative, and a rotation control for every initial rotation, also one
\* outside [-180, 180].
C18_InitialWithinBounds ==
  BeginCalled =>
    \A c \in LiveControllers : c.min <= c.value /\ c.value <= c.max

\* C19: whenever no switch is in flight the loaded models in the scene are
\* exactly currentModel, and none when currentModel is null, also after
\* overlapping switchModel calls and after calls whose load fails.
C19_SceneHoldsCurrentModel ==
  calls = {} =>
    scene = (IF currentModel = None THEN {} ELSE {currentModel})

\* the nodes of a tree with a given name
NamedIn(m, nm) == {id \in DOMAIN m : m[id].name = nm}

\* C20: for the attachment list and the index of one scan the lookup of the
\* propagator never comes back empty: the own name "Attached_" + targetName
\* of every attachment is a key of the index, so an attachment without a
\* Pivot_ node is driven by the node under its own name: by itself when the
\* name is unique, and then it keeps its position, and by the node of that
\* name visited last otherwise.
C20_LookupNeverEmpty ==
  [][last'.op = "begin" =>
       LET m == objs[last'.object]
           scan == findStandardObjects(m)
       IN \A k \in 1..Len(scan.attachments) :
            LET att == scan.attachments[k]
                own == AttachedPrefix \o att.targetName
                driving == DrivingNode(scan.objectMap, att)
            IN /\ m[att.object].name = own
               /\ own \in DOMAIN scan.objectMap
               /\ driving # None
               /\ (PivotPrefix \o att.targetName) \notin DOMAIN scan.objectMap
                    => /\ driving \in NamedIn(m, own)
                       /\ \A other \in NamedIn(m, own) \ {driving} :
                            VisitedBefore(m, other, driving)
                       /\ NamedIn(m, own) = {att.object} =>
                            /\ driving = att.object
                            /\ objs'[last'.object][att.object].position =
                                 m[att.object].position]_vars

C20_Witness ==
  /\ BeginCalled
  /\ last.propagated = 1
  /\ LET m == objs[last.object]
         scan == findStandardObjects(m)
     IN \E k \in 1..Len(scan.attachments) :
          LET att == scan.attachments[k]
              own == AttachedPrefix \o att.targetName
          IN /\ (PivotPrefix \o att.targetName) \notin DOMAIN scan.objectMap
             /\ Cardinality(NamedIn(m, own)) = 2
             /\ scan.objectMap[own] # att.object
             /\ m[att.object].position =
                  DrivenPosition(m, att, scan.objectMap[own])

====
